---- MODULE Spec2Model ----
(***************************************************************************)
(* A model of b0::Socket (src/b0/socket.cpp): the session object that      *)
(* frames message envelopes onto one transport datagram, stamps and checks *)
(* the "Header" of an envelope, registers with its owning node, sets the   *)
(* transport options and traces traffic selected by B0_DEBUG_SOCKET.       *)
(*                                                                         *)
(* A std::string is a sequence of one-character strings, so that find,     *)
(* substr and split work on characters as they do in the code.  Every      *)
(* public method of Socket is one action that runs the whole call, the     *)
(* methods it calls included; `last` records what the call did.            *)
(***************************************************************************)
EXTENDS Integers, Sequences, FiniteSets, TLC

VARIABLES
    node_,    \* the owning Node: its name and its registered sockets
    sock,     \* the fields of every Socket object, by object identity
    inbox,    \* the transport's inbound queue of every socket
    environ,  \* the process environment read by dumpPayload
    arg,      \* the pattern the caller is about to pass to matchesPattern
    last      \* what the last call did

vars == <<node_, sock, inbox, environ, arg, last>>

-----------------------------------------------------------------------------
(* Bounds of the model *)

\* Socket objects that can ever be constructed
MaxSockets == 3
\* frames a socket's inbound queue holds
MaxQueue == 1
\* parts in a parts list handed in by a caller
MaxParts == 2
\* characters in a pattern string / a B0_DEBUG_SOCKET value
MaxPatLen == 4

\* Socket::Socket: setLingerPeriod(5000)
LingerPeriod == 5000

-----------------------------------------------------------------------------
(* Strings *)

Star == <<"*">>
Odom == <<"o", "d", "o", "m">>
Odom2 == <<"o", "d", "o", "m", "2">>
Robot1 == <<"r", "o", "b", "o", "t", "1">>
HeaderKey == "Header"

\* All strings over `chars` of at most n characters
RECURSIVE StringsUpTo(_, _)
StringsUpTo(chars, n) ==
    IF n = 0 THEN {<<>>}
    ELSE LET shorter == StringsUpTo(chars, n - 1)
         IN  shorter \cup {Append(s, c) : s \in shorter, c \in chars}

\* std::string::npos
npos == -1

\* std::string::find(ch): the first position of ch from `from` on (1-based),
\* npos when there is none
RECURSIVE FindFrom(_, _, _)
FindFrom(str, ch, from) ==
    IF from > Len(str) THEN npos
    ELSE IF str[from] = ch THEN from
    ELSE FindFrom(str, ch, from + 1)

Find(str, ch) == FindFrom(str, ch, 1)

\* boost::split(v, str, boost::is_any_of(":;")), token_compress_off: the
\* delimiter-free runs between delimiters, empty runs kept; "" gives [""]
RECURSIVE SplitFrom(_, _, _, _)
SplitFrom(str, delims, i, token) ==
    IF i > Len(str) THEN <<token>>
    ELSE IF str[i] \in delims
         THEN <<token>> \o SplitFrom(str, delims, i + 1, <<>>)
         ELSE SplitFrom(str, delims, i + 1, Append(token, str[i]))

Split(str, delims) == SplitFrom(str, delims, 1, <<>>)

-----------------------------------------------------------------------------
(* Envelope model: MessagePart, MessageEnvelope, Message and their codecs *)

\* b0::message::MessagePart
MessagePart(payload, content_type, algorithm, level) ==
    [payload |-> payload, content_type |-> content_type,
     compression_algorithm |-> algorithm, compression_level |-> level]

\* std::map<std::string, std::string> headers: a function on the keys present
NoHeaders == [k \in {} |-> <<>>]
OneHeader(key, value) == [k \in {key} |-> value]

\* b0::message::MessageEnvelope
MessageEnvelope(parts, headers) == [parts |-> parts, headers |-> headers]
EmptyEnvelope == MessageEnvelope(<<>>, NoHeaders)

\* The bytes of one datagram: the encoding of an envelope, or bytes that
\* are no envelope's encoding
Malformed == [wellformed |-> FALSE, of |-> EmptyEnvelope]

\* MessageEnvelope::serializeToString
EnvEncode(env) == [wellformed |-> TRUE, of |-> env]

\* MessageEnvelope::parseFromString: throws on bytes that encode no envelope
EnvDecode(bytes) ==
    IF bytes.wellformed THEN [ok |-> TRUE, env |-> bytes.of]
    ELSE [ok |-> FALSE, env |-> EmptyEnvelope]

\* b0::message::Message: an object of one message class (its type() tag)
\* holding a value
Message(type, value) == [type |-> type, value |-> value]

\* the digits a message value is written with
Digit == [v \in {1, 2} |-> IF v = 1 THEN "1" ELSE "2"]

\* Message::serializeToString
MsgEncode(value) == <<"#", Digit[value]>>

\* Message::parseFromString: throws on a string that is no serialized value
MsgDecode(str) ==
    IF Len(str) = 2 /\ str[1] = "#" /\ \E v \in DOMAIN Digit : Digit[v] = str[2]
    THEN [ok |-> TRUE, value |-> CHOOSE v \in DOMAIN Digit : Digit[v] = str[2]]
    ELSE [ok |-> FALSE, value |-> 0]

-----------------------------------------------------------------------------
(* Pattern matcher and debug hook *)

\* matchesPattern with "or" between the two halves
matchesPatternEither(node, name, pattern) ==
    IF pattern = Star THEN TRUE
    ELSE LET pos == Find(pattern, ".")
         IN  IF pos # npos
             THEN LET np == SubSeq(pattern, 1, pos - 1)
                      sp == SubSeq(pattern, pos + 1, Len(pattern))
                  IN  (np = Star \/ np = node) \/ (sp = Star \/ sp = name)
             ELSE FALSE

\* Socket::matchesPattern, for the socket `name` of node `node`
matchesPattern(node, name, pattern) ==
    IF pattern = Star THEN TRUE
    ELSE LET pos == Find(pattern, ".")
         IN  IF pos # npos
             THEN LET np == SubSeq(pattern, 1, pos - 1)
                      sp == SubSeq(pattern, pos + 1, Len(pattern))
                  IN  (np = Star \/ np = node) /\ (sp = Star \/ sp = name)
             ELSE FALSE

\* b0::env::get(name): the value of the variable, "" when it is not set
EnvGet(envr, var) == IF envr[var].set THEN envr[var].value ELSE <<>>

\* b0::env::getBool(name): false when the variable is not set
EnvGetBool(envr, var) == envr[var].set /\ envr[var].value = <<"1">>

\* debugEnabled that splits at ':' only
debugEnabledColonOnly(node, name, envr) ==
    LET debug_socket_v == Split(EnvGet(envr, "B0_DEBUG_SOCKET"), {":"})
    IN  \E i \in 1..Len(debug_socket_v) :
            matchesPattern(node, name, debug_socket_v[i])

\* dumpPayload: debug_enabled, the loop over the split patterns
debugEnabled(node, name, envr) ==
    LET debug_socket_v == Split(EnvGet(envr, "B0_DEBUG_SOCKET"), {":", ";"})
    IN  \E i \in 1..Len(debug_socket_v) :
            matchesPattern(node, name, debug_socket_v[i])

\* dumpPayload: what it writes to std::cout, as the list of traces written
\* (none when debug is not enabled for the socket)
dumpPayload(node, name, op, payload, envr) ==
    IF ~debugEnabled(node, name, envr) THEN <<>>
    ELSE <<[node |-> node, sock |-> name, op |-> op, payload |-> payload,
            ext |-> EnvGetBool(envr, "B0_DEBUG_SOCKET_EXTENDED")]>>

-----------------------------------------------------------------------------
(* What one call does: its outcome ("ok" or the exception that left it),   *)
(* the steps it ran in order, what dumpPayload wrote, the datagrams it     *)
(* handed to the transport, and the caller's objects after the call        *)

NoMessage == Message("", 0)

Call ==
    [outcome |-> "ok", actual |-> <<>>, expected |-> <<>>,
     steps |-> <<>>, dump |-> <<>>, wire |-> <<>>,
     env |-> EmptyEnvelope, parts |-> <<>>, payload |-> <<>>, type |-> "",
     message |-> NoMessage]

-----------------------------------------------------------------------------
(* Read path.  `sk` is the Socket object, `node` its node's name, `rx`     *)
(* what socket_.recv did: kind "frame" with the frame it took, "again"     *)
(* (recv returned false) or "error" (recv threw zmq::error_t).             *)

\* checkHeader with the arguments of HeaderMismatch in the other order
checkHeaderSwapped(sk, r) ==
    IF sk.has_header_
    THEN LET r1 == [r EXCEPT !.steps = Append(r.steps, "header")]
         IN  IF HeaderKey \notin DOMAIN r.env.headers
             THEN [r1 EXCEPT !.outcome = "std::out_of_range"]
             ELSE LET hdr == r.env.headers[HeaderKey]
                  IN  IF hdr # sk.name_
                      THEN [r1 EXCEPT !.outcome = "HeaderMismatch",
                                      !.actual = sk.name_, !.expected = hdr]
                      ELSE r1
    ELSE r

\* checkHeader that checks the header only when the envelope has one
checkHeaderLenient(sk, r) ==
    IF sk.has_header_ /\ HeaderKey \in DOMAIN r.env.headers
    THEN LET r1 == [r EXCEPT !.steps = Append(r.steps, "header")]
             hdr == r.env.headers[HeaderKey]
         IN  IF hdr # sk.name_
             THEN [r1 EXCEPT !.outcome = "HeaderMismatch",
                             !.actual = hdr, !.expected = sk.name_]
             ELSE r1
    ELSE r

\* Socket::readRaw(MessageEnvelope&): the header check on the parsed envelope
checkHeader(sk, r) ==
    IF sk.has_header_
    THEN LET r1 == [r EXCEPT !.steps = Append(r.steps, "header")]
         IN  IF HeaderKey \notin DOMAIN r.env.headers
             THEN [r1 EXCEPT !.outcome = "std::out_of_range"]
             ELSE LET hdr == r.env.headers[HeaderKey]
                  IN  IF hdr # sk.name_
                      THEN [r1 EXCEPT !.outcome = "HeaderMismatch",
                                      !.actual = hdr, !.expected = sk.name_]
                      ELSE r1
    ELSE r

\* tooManyParts that lets every frame pass
tooManyPartsIgnored(frame) == FALSE

\* Socket::readRaw(MessageEnvelope&): msg_payload.more()
tooManyParts(frame) == frame.more

\* readRawEnv that returns normally when recv returned false
readRawEnvAgainIgnored(sk, node, envr, rx, env0) ==
    LET r0 == [Call EXCEPT !.env = env0, !.steps = <<"recv">>]
    IN  IF rx.kind = "error" THEN [r0 EXCEPT !.outcome = "zmq::error_t"]
        ELSE IF rx.kind = "again" THEN r0
        ELSE IF tooManyParts(rx.frame)
             THEN [r0 EXCEPT !.outcome = "MessageTooManyPartsError",
                             !.steps = <<"recv", "more">>]
        ELSE LET payload == rx.frame.data
                 dec == EnvDecode(payload)
                 r1 == [r0 EXCEPT
                          !.dump = dumpPayload(node, sk.name_, "recv", payload, envr),
                          !.steps = <<"recv", "more", "dump", "parse">>]
             IN  IF ~dec.ok THEN [r1 EXCEPT !.outcome = "parse error"]
                 ELSE checkHeader(sk, [r1 EXCEPT !.env = dec.env])

\* readRawEnv that parses the payload before it calls dumpPayload
readRawEnvParseFirst(sk, node, envr, rx, env0) ==
    LET r0 == [Call EXCEPT !.env = env0, !.steps = <<"recv">>]
    IN  IF rx.kind = "error" THEN [r0 EXCEPT !.outcome = "zmq::error_t"]
        ELSE IF rx.kind = "again" THEN [r0 EXCEPT !.outcome = "SocketReadError"]
        ELSE IF tooManyParts(rx.frame)
             THEN [r0 EXCEPT !.outcome = "MessageTooManyPartsError",
                             !.steps = <<"recv", "more">>]
        ELSE LET payload == rx.frame.data
                 dec == EnvDecode(payload)
                 r1 == [r0 EXCEPT !.steps = <<"recv", "more", "parse">>]
                 r2 == [r1 EXCEPT
                          !.dump = dumpPayload(node, sk.name_, "recv", payload, envr),
                          !.steps = <<"recv", "more", "parse", "dump">>]
             IN  IF ~dec.ok THEN [r1 EXCEPT !.outcome = "parse error"]
                 ELSE checkHeader(sk, [r2 EXCEPT !.env = dec.env])

\* Socket::readRaw(MessageEnvelope&); env0 is the caller's envelope. What
\* parseFromString leaves in env0 when it throws is not known: the model
\* leaves env0 as it was.
readRawEnv(sk, node, envr, rx, env0) ==
    LET r0 == [Call EXCEPT !.env = env0, !.steps = <<"recv">>]
    IN  IF rx.kind = "error" THEN [r0 EXCEPT !.outcome = "zmq::error_t"]
        ELSE IF rx.kind = "again" THEN [r0 EXCEPT !.outcome = "SocketReadError"]
        ELSE IF tooManyParts(rx.frame)
             THEN [r0 EXCEPT !.outcome = "MessageTooManyPartsError",
                             !.steps = <<"recv", "more">>]
        ELSE LET payload == rx.frame.data
                 dec == EnvDecode(payload)
                 r1 == [r0 EXCEPT
                          !.dump = dumpPayload(node, sk.name_, "recv", payload, envr),
                          !.steps = <<"recv", "more", "dump", "parse">>]
             IN  IF ~dec.ok THEN [r1 EXCEPT !.outcome = "parse error"]
                 ELSE checkHeader(sk, [r1 EXCEPT !.env = dec.env])

\* readRawParts that hands over the parts of every envelope it parsed,
\* before the header check
readRawPartsEager(sk, node, envr, rx, parts0) ==
    LET r == readRawEnv(sk, node, envr, rx, EmptyEnvelope)
    IN  IF r.outcome \in {"ok", "std::out_of_range", "HeaderMismatch"}
        THEN [r EXCEPT !.parts = r.env.parts]
        ELSE [r EXCEPT !.parts = parts0]

\* Socket::readRaw(std::vector<MessagePart>&); parts0 is the caller's list
readRawParts(sk, node, envr, rx, parts0) ==
    LET r == readRawEnv(sk, node, envr, rx, EmptyEnvelope)
    IN  IF r.outcome = "ok" THEN [r EXCEPT !.parts = r.env.parts]
        ELSE [r EXCEPT !.parts = parts0]

\* parts[0] of a std::vector: of an empty vector the behaviour is undefined,
\* and `ub` is what the build makes of it: a crash, or a part read from
\* whatever memory is there
FirstPart(parts, ub) ==
    IF parts # <<>> THEN [crash |-> FALSE, part |-> parts[1]] ELSE ub

\* Socket::readRaw(std::string&, std::string&); msg0, type0 are the caller's
readRawPayload(sk, node, envr, rx, ub, msg0, type0) ==
    LET r == readRawParts(sk, node, envr, rx, <<>>)
        r0 == [r EXCEPT !.payload = msg0, !.type = type0]
    IN  IF r.outcome # "ok" THEN r0
        ELSE LET first == FirstPart(r.parts, ub)
             IN  IF first.crash THEN [r0 EXCEPT !.outcome = "crash"]
                 ELSE [r0 EXCEPT !.payload = first.part.payload,
                                 !.type = first.part.content_type]

\* Message::parseFromString on the caller's message object
parseMessage(r, message0, str) ==
    LET dec == MsgDecode(str)
        r1 == [r EXCEPT !.steps = Append(r.steps, "msg.parse")]
    IN  IF dec.ok THEN [r1 EXCEPT !.message = Message(message0.type, dec.value)]
        ELSE [r1 EXCEPT !.outcome = "msg parse error"]

\* readMsg that does not compare the content type with the message's type
readMsgAnyType(sk, node, envr, rx, ub, message0) ==
    LET r == readRawPayload(sk, node, envr, rx, ub, <<>>, "")
        r0 == [r EXCEPT !.message = message0]
    IN  IF r.outcome # "ok" THEN r0
        ELSE parseMessage(r0, message0, r.payload)

\* Socket::readMsg(Message&); message0 is the caller's message object
readMsg(sk, node, envr, rx, ub, message0) ==
    LET r == readRawPayload(sk, node, envr, rx, ub, <<>>, "")
        r0 == [r EXCEPT !.message = message0]
    IN  IF r.outcome # "ok" THEN r0
        ELSE IF r.type # message0.type
             THEN [r0 EXCEPT !.outcome = "EnvelopeDecodeError"]
        ELSE parseMessage(r0, message0, r.payload)

\* Socket::readMsg(Message&, std::vector<MessagePart>&)
readMsgParts(sk, node, envr, rx, ub, message0, parts0) ==
    LET r == readRawParts(sk, node, envr, rx, parts0)
        r0 == [r EXCEPT !.message = message0]
    IN  IF r.outcome # "ok" THEN r0
        ELSE LET first == FirstPart(r.parts, ub)
             IN  IF first.crash THEN [r0 EXCEPT !.outcome = "crash"]
                 ELSE IF first.part.content_type # message0.type
                      THEN [r0 EXCEPT !.outcome = "EnvelopeDecodeError"]
                 ELSE LET r1 == parseMessage(r0, message0, first.part.payload)
                      IN  IF r1.outcome # "ok" THEN r1
                          ELSE IF r.parts = <<>>
                               THEN [r1 EXCEPT !.outcome = "crash"]
                          ELSE [r1 EXCEPT !.parts = Tail(r.parts)]

-----------------------------------------------------------------------------
(* Write path.  `tx` is what socket_.send did: "ok", "again" (send         *)
(* returned false) or "error" (send threw zmq::error_t).                   *)

\* writeRawEnv that a trace in extended mode makes fail before the send
writeRawEnvTraceFails(sk, node, envr, tx, env) ==
    LET payload == EnvEncode(env)
        r == [Call EXCEPT
                !.env = env,
                !.steps = <<"serialize", "dump", "send">>,
                !.dump = dumpPayload(node, sk.name_, "send", payload, envr)]
    IN  IF r.dump # <<>> /\ r.dump[1].ext
        THEN [r EXCEPT !.outcome = "std::ios_base::failure",
                       !.steps = <<"serialize", "dump">>]
        ELSE IF tx = "error" THEN [r EXCEPT !.outcome = "zmq::error_t"]
        ELSE IF tx = "again" THEN [r EXCEPT !.outcome = "SocketWriteError"]
        ELSE [r EXCEPT !.wire = <<payload>>]

\* Socket::writeRaw(const MessageEnvelope&)
writeRawEnv(sk, node, envr, tx, env) ==
    LET payload == EnvEncode(env)
        r == [Call EXCEPT
                !.env = env,
                !.steps = <<"serialize", "dump", "send">>,
                !.dump = dumpPayload(node, sk.name_, "send", payload, envr)]
    IN  IF tx = "error" THEN [r EXCEPT !.outcome = "zmq::error_t"]
        ELSE IF tx = "again" THEN [r EXCEPT !.outcome = "SocketWriteError"]
        ELSE [r EXCEPT !.wire = <<payload>>]

\* Socket::writeRaw(const std::vector<MessagePart>&): the envelope it builds
stampHeader(sk, env) ==
    IF sk.has_header_
    THEN [env EXCEPT !.headers = OneHeader(HeaderKey, sk.name_)]
    ELSE env

\* Socket::writeRaw(const std::vector<MessagePart>&)
writeRawParts(sk, node, envr, tx, parts) ==
    writeRawEnv(sk, node, envr, tx,
                stampHeader(sk, MessageEnvelope(parts, NoHeaders)))

\* ownPart with the compression fields of a default MessagePart
ownPartDefault(sk, msg, type) == MessagePart(msg, type, "", 0)

\* the part writeRaw(msg, type) and writeMsg build from the socket's
\* compression settings
ownPart(sk, msg, type) ==
    MessagePart(msg, type, sk.compression_algorithm_, sk.compression_level_)

\* Socket::writeRaw(const std::string&, const std::string&)
writeRawPayload(sk, node, envr, tx, msg, type) ==
    writeRawParts(sk, node, envr, tx, <<ownPart(sk, msg, type)>>)

\* Socket::writeMsg(const Message&)
writeMsg(sk, node, envr, tx, message) ==
    [writeRawPayload(sk, node, envr, tx, MsgEncode(message.value), message.type)
        EXCEPT !.message = message,
               !.steps = <<"msg.serialize">> \o @]

\* writeMsgParts that puts the message's part after the caller's parts
writeMsgPartsAppended(sk, node, envr, tx, message, parts) ==
    LET part0 == ownPart(sk, MsgEncode(message.value), message.type)
        parts1 == parts \o <<part0>>
    IN  [writeRawParts(sk, node, envr, tx, parts1)
            EXCEPT !.message = message,
                   !.steps = <<"msg.serialize">> \o @]

\* Socket::writeMsg(const Message&, const std::vector<MessagePart>&)
writeMsgParts(sk, node, envr, tx, message, parts) ==
    LET part0 == ownPart(sk, MsgEncode(message.value), message.type)
        parts1 == <<part0>> \o parts
    IN  [writeRawParts(sk, node, envr, tx, parts1)
            EXCEPT !.message = message,
                   !.steps = <<"msg.serialize">> \o @]

-----------------------------------------------------------------------------
(* The owning node and the transport socket *)

Socks == 1..MaxSockets

\* Node::addSocket / Node::removeSocket: the node's set of sockets, and how
\* often each was called for a socket
addSocket(nd, s) ==
    [nd EXCEPT !.sockets = @ \cup {s}, !.added[s] = @ + 1]

removeSocket(nd, s) ==
    [nd EXCEPT !.sockets = @ \ {s}, !.removed[s] = @ + 1]

NewNode(name) ==
    [name |-> name, sockets |-> {},
     added |-> [s \in Socks |-> 0], removed |-> [s \in Socks |-> 0]]

\* the integer options of zmq::socket_t that Socket reads and writes
OptionIds ==
    {"ZMQ_LINGER", "ZMQ_RCVTIMEO", "ZMQ_SNDTIMEO", "ZMQ_BACKLOG",
     "ZMQ_IMMEDIATE", "ZMQ_CONFLATE", "ZMQ_RCVHWM", "ZMQ_SNDHWM"}

\* zmq::socket_t(context, type): the options of a new transport socket
TransportDefaults ==
    [o \in OptionIds |->
        CASE o \in {"ZMQ_LINGER", "ZMQ_RCVTIMEO", "ZMQ_SNDTIMEO"} -> -1
          [] o \in {"ZMQ_IMMEDIATE", "ZMQ_CONFLATE"} -> 0
          [] o = "ZMQ_BACKLOG" -> 100
          [] OTHER -> 1000]

\* a Socket that is not constructed yet ("unborn"), or destroyed ("dead":
\* of a destroyed one the model remembers only whether it was managed)
NoSocket(state) ==
    [state |-> state, type_ |-> "", name_ |-> <<>>, has_header_ |-> FALSE,
     managed_ |-> FALSE, remote_addr_ |-> <<>>,
     compression_algorithm_ |-> "", compression_level_ |-> 0,
     opts |-> TransportDefaults]

\* Socket::setIntOption / Socket::getIntOption
setIntOption(sk, option, value) == [sk EXCEPT !.opts[option] = value]
getIntOption(sk, option) == sk.opts[option]

\* Socket::setLingerPeriod / Socket::getLingerPeriod
setLingerPeriod(sk, period) == setIntOption(sk, "ZMQ_LINGER", period)
getLingerPeriod(sk) == getIntOption(sk, "ZMQ_LINGER")

\* ctor without the call of setLingerPeriod
ctorNoLinger(s, nd, type, name, managed, level0) ==
    [sk |-> [state |-> "live", type_ |-> type, name_ |-> name,
             has_header_ |-> FALSE, managed_ |-> managed,
             remote_addr_ |-> <<>>, compression_algorithm_ |-> "",
             compression_level_ |-> level0, opts |-> TransportDefaults],
     node |-> IF managed THEN addSocket(nd, s) ELSE nd]

\* Socket::Socket: the object and the node after the constructor ran.
\* compression_level_ is not in the initializer list: `level0` is the value
\* the member happens to hold.
ctor(s, nd, type, name, managed, level0) ==
    LET sk0 == [state |-> "live", type_ |-> type, name_ |-> name,
                has_header_ |-> FALSE, managed_ |-> managed,
                remote_addr_ |-> <<>>, compression_algorithm_ |-> "",
                compression_level_ |-> level0, opts |-> TransportDefaults]
    IN  [sk |-> setLingerPeriod(sk0, LingerPeriod),
         node |-> IF managed THEN addSocket(nd, s) ELSE nd]

\* dtor that does not look at managed_
dtorAlways(s, nd, sk) == removeSocket(nd, s)

\* Socket::~Socket: the node after the destructor ran
dtor(s, nd, sk) == IF sk.managed_ THEN removeSocket(nd, s) ELSE nd

\* Socket::setHasHeader
setHasHeader(sk, has_header) == [sk EXCEPT !.has_header_ = has_header]

\* Socket::setCompression
setCompression(sk, algorithm, level) ==
    [sk EXCEPT !.compression_algorithm_ = algorithm,
               !.compression_level_ = level]

Live(s) == sock[s].state = "live"

\* one transport frame: its bytes, the "more frames follow" flag, and (for
\* the record only) the write call that produced it
NoOrigin ==
    [op |-> "foreign", from |-> 0, has_header |-> FALSE, name |-> <<>>,
     message |-> NoMessage, parts |-> <<>>]

Frame(data, more, origin) == [data |-> data, more |-> more, origin |-> origin]
NoFrame == Frame(Malformed, FALSE, NoOrigin)

\* what socket_.recv can do on socket s: take the head frame of the queue;
\* return false when nothing arrives before ZMQ_RCVTIMEO (with no timeout
\* set the call blocks); throw (always, on a socket type that does not
\* receive)
RecvOutcomes(s) ==
    {[kind |-> "error", frame |-> NoFrame]}
    \cup (IF sock[s].type_ = "PUB" THEN {}
          ELSE IF inbox[s] # <<>>
               THEN {[kind |-> "frame", frame |-> Head(inbox[s])]}
          ELSE IF getIntOption(sock[s], "ZMQ_RCVTIMEO") >= 0
               THEN {[kind |-> "again", frame |-> NoFrame]}
               ELSE {})

\* the queue of s after recv did rx
AfterRecv(s, rx) ==
    IF rx.kind = "frame" THEN [inbox EXCEPT ![s] = Tail(@)] ELSE inbox

\* the datagrams in a queue of frames: each ends with a frame without "more"
Datagrams(frames) == Cardinality({i \in 1..Len(frames) : ~frames[i].more})

\* ZMQ_CONFLATE: the queue keeps only the most recent datagram
Conflating(s) == getIntOption(sock[s], "ZMQ_CONFLATE") # 0

\* ZMQ_RCVHWM: the datagrams the queue of d holds at most
Capacity(d) ==
    LET hwm == getIntOption(sock[d], "ZMQ_RCVHWM")
    IN  IF hwm < MaxQueue THEN hwm ELSE MaxQueue

\* whether the queue of d takes a datagram more
HasRoom(d) == Conflating(d) \/ Datagrams(inbox[d]) < Capacity(d)

\* the queue of d after the datagram `frames` arrived
Enqueue(d, frames) ==
    [inbox EXCEPT ![d] = IF Conflating(d) THEN frames ELSE @ \o frames]

\* the sockets a datagram sent by s can be queued at
Peers(s) ==
    {d \in Socks \ {s} : Live(d) /\ sock[d].type_ \in {"SUB", "PAIR"} /\ HasRoom(d)}

\* what socket_.send can do on socket s: queue the datagram at a peer (a
\* PUB socket drops it when no peer takes it); return false when it cannot
\* before ZMQ_SNDTIMEO; throw (always, on a socket type that does not send)
SendOutcomes(s) ==
    {"error"}
    \cup (IF sock[s].type_ = "SUB" THEN {}
          ELSE (IF Peers(s) # {} \/ sock[s].type_ = "PUB" THEN {"ok"} ELSE {})
               \cup (IF getIntOption(sock[s], "ZMQ_SNDTIMEO") >= 0
                     THEN {"again"} ELSE {}))

\* the queues after the call r of socket s transmitted its datagrams to d
AfterSend(s, d, r, origin) ==
    IF r.wire = <<>> \/ d = s THEN inbox
    ELSE Enqueue(d, <<Frame(r.wire[1], FALSE, origin)>>)

\* the caller's arguments of a call, as they were when it was made
NoArgs ==
    [env |-> EmptyEnvelope, parts |-> <<>>, payload |-> <<>>, type |-> "",
     message |-> NoMessage, pattern |-> <<>>, option |-> "",
     algorithm |-> "", level |-> 0, timeout |-> 0]

\* `io` is what recv or send did in the call ("none" when it called neither)
Done(op, s, args, rx, r) ==
    [op |-> op, sock |-> s, args |-> args, rx |-> rx, r |-> r, io |-> "none"]

NoCall == Done("none", 0, NoArgs, NoFrame, Call)

-----------------------------------------------------------------------------
(* Actions: one per public method of Socket, with the caller's arguments   *)
(* as parameters                                                           *)

\* Socket::Socket; `fails` when zmq::socket_t cannot be created, and the
\* constructor throws before there is an object
Construct(s, type, name, managed, level0, fails) ==
    /\ sock[s].state = "unborn"
    /\ LET c == ctor(s, node_, type, name, managed, level0)
       IN  IF fails
           THEN /\ last' = Done("Socket", s, NoArgs, NoFrame,
                                [Call EXCEPT !.outcome = "zmq::error_t"])
                /\ UNCHANGED <<node_, sock>>
           ELSE /\ sock' = [sock EXCEPT ![s] = c.sk]
                /\ node_' = c.node
                /\ last' = Done("Socket", s, NoArgs, NoFrame, Call)
    /\ UNCHANGED <<inbox, environ, arg>>

\* Socket::~Socket; the transport socket goes with it
Destroy(s) ==
    /\ Live(s)
    /\ node_' = dtor(s, node_, sock[s])
    /\ sock' = [sock EXCEPT ![s] =
                  [NoSocket("dead") EXCEPT !.managed_ = sock[s].managed_]]
    /\ inbox' = [inbox EXCEPT ![s] = <<>>]
    /\ last' = Done("~Socket", s, NoArgs, NoFrame, Call)
    /\ UNCHANGED <<environ, arg>>

\* a call that changes the fields of the Socket object only
Update(op, s, option, sk) ==
    /\ Live(s)
    /\ sock' = [sock EXCEPT ![s] = sk]
    /\ last' = Done(op, s, [NoArgs EXCEPT !.option = option], NoFrame, Call)
    /\ UNCHANGED <<node_, inbox, environ, arg>>

SetHasHeader(s, has_header) ==
    Update("setHasHeader", s, "", setHasHeader(sock[s], has_header))

SetCompression(s, algorithm, level) ==
    /\ Live(s)
    /\ sock' = [sock EXCEPT ![s] = setCompression(sock[s], algorithm, level)]
    /\ last' = Done("setCompression", s,
                    [NoArgs EXCEPT !.algorithm = algorithm, !.level = level],
                    NoFrame, Call)
    /\ UNCHANGED <<node_, inbox, environ, arg>>

SetLingerPeriod(s, period) ==
    Update("setLingerPeriod", s, "ZMQ_LINGER", setLingerPeriod(sock[s], period))

SetReadTimeout(s, timeout) ==
    Update("setReadTimeout", s, "ZMQ_RCVTIMEO", setIntOption(sock[s], "ZMQ_RCVTIMEO", timeout))

SetWriteTimeout(s, timeout) ==
    Update("setWriteTimeout", s, "ZMQ_SNDTIMEO", setIntOption(sock[s], "ZMQ_SNDTIMEO", timeout))

SetBacklog(s, backlog) ==
    Update("setBacklog", s, "ZMQ_BACKLOG", setIntOption(sock[s], "ZMQ_BACKLOG", backlog))

SetImmediate(s, immediate) ==
    Update("setImmediate", s, "ZMQ_IMMEDIATE",
           setIntOption(sock[s], "ZMQ_IMMEDIATE", IF immediate THEN 1 ELSE 0))

SetConflate(s, conflate) ==
    Update("setConflate", s, "ZMQ_CONFLATE",
           setIntOption(sock[s], "ZMQ_CONFLATE", IF conflate THEN 1 ELSE 0))

SetReadHWM(s, n) ==
    Update("setReadHWM", s, "ZMQ_RCVHWM", setIntOption(sock[s], "ZMQ_RCVHWM", n))

SetWriteHWM(s, n) ==
    Update("setWriteHWM", s, "ZMQ_SNDHWM", setIntOption(sock[s], "ZMQ_SNDHWM", n))

\* Socket::setsockopt, for an integer option
Setsockopt(s, option, value) ==
    Update("setsockopt", s, option, setIntOption(sock[s], option, value))

\* a queue of frames without its first datagram
RECURSIVE WithoutDatagram(_)
WithoutDatagram(frames) ==
    IF frames = <<>> THEN <<>>
    ELSE IF Head(frames).more THEN WithoutDatagram(Tail(frames))
    ELSE Tail(frames)

\* Read that, on a frame with more frames to follow, takes the whole
\* datagram from the queue
ReadDiscarding(op, s, args, r) ==
    /\ Live(s)
    /\ \E rx \in RecvOutcomes(s) :
          /\ last' = [Done(op, s, args, rx.frame, r[rx]) EXCEPT !.io = rx.kind]
          /\ inbox' = IF rx.kind = "frame" /\ rx.frame.more
                      THEN [inbox EXCEPT ![s] = WithoutDatagram(@)]
                      ELSE AfterRecv(s, rx)
    /\ UNCHANGED <<node_, sock, environ, arg>>

\* a read call: r[rx] is what the method does when recv does rx
Read(op, s, args, r) ==
    /\ Live(s)
    /\ \E rx \in RecvOutcomes(s) :
          /\ last' = [Done(op, s, args, rx.frame, r[rx]) EXCEPT !.io = rx.kind]
          /\ inbox' = AfterRecv(s, rx)
    /\ UNCHANGED <<node_, sock, environ, arg>>

ReadRawEnv(s, env0) ==
    LET r == [rx \in RecvOutcomes(s) |->
                 readRawEnv(sock[s], node_.name, environ, rx, env0)]
    IN  Read("readRaw(env)", s, [NoArgs EXCEPT !.env = env0], r)

ReadRawParts(s, parts0) ==
    LET r == [rx \in RecvOutcomes(s) |->
                 readRawParts(sock[s], node_.name, environ, rx, parts0)]
    IN  Read("readRaw(parts)", s, [NoArgs EXCEPT !.parts = parts0], r)

ReadRawPayload(s, ub, msg0, type0) ==
    LET r == [rx \in RecvOutcomes(s) |->
                 readRawPayload(sock[s], node_.name, environ, rx, ub, msg0, type0)]
    IN  Read("readRaw(msg,type)", s,
             [NoArgs EXCEPT !.payload = msg0, !.type = type0], r)

ReadMsg(s, ub, message0) ==
    LET r == [rx \in RecvOutcomes(s) |->
                 readMsg(sock[s], node_.name, environ, rx, ub, message0)]
    IN  Read("readMsg(msg)", s, [NoArgs EXCEPT !.message = message0], r)

ReadMsgParts(s, ub, message0, parts0) ==
    LET r == [rx \in RecvOutcomes(s) |->
                 readMsgParts(sock[s], node_.name, environ, rx, ub, message0, parts0)]
    IN  Read("readMsg(msg,parts)", s,
             [NoArgs EXCEPT !.message = message0, !.parts = parts0], r)

\* a write call: r[tx] is what the method does when send does tx
Write(op, s, args, r) ==
    /\ Live(s)
    /\ \E tx \in SendOutcomes(s) :
          /\ last' = [Done(op, s, args, NoFrame, r[tx]) EXCEPT !.io = tx]
          /\ \E d \in (IF tx = "ok" /\ Peers(s) # {} THEN Peers(s) ELSE {s}) :
                inbox' = AfterSend(s, d, r[tx],
                            [op |-> op, from |-> s,
                             has_header |-> sock[s].has_header_,
                             name |-> sock[s].name_,
                             message |-> args.message, parts |-> args.parts])
    /\ UNCHANGED <<node_, sock, environ, arg>>

WriteRawEnv(s, env) ==
    LET r == [tx \in SendOutcomes(s) |->
                 writeRawEnv(sock[s], node_.name, environ, tx, env)]
    IN  Write("writeRaw(env)", s, [NoArgs EXCEPT !.env = env], r)

WriteRawParts(s, parts) ==
    LET r == [tx \in SendOutcomes(s) |->
                 writeRawParts(sock[s], node_.name, environ, tx, parts)]
    IN  Write("writeRaw(parts)", s, [NoArgs EXCEPT !.parts = parts], r)

WriteRawPayload(s, msg, type) ==
    LET r == [tx \in SendOutcomes(s) |->
                 writeRawPayload(sock[s], node_.name, environ, tx, msg, type)]
    IN  Write("writeRaw(msg,type)", s,
              [NoArgs EXCEPT !.payload = msg, !.type = type], r)

WriteMsg(s, message) ==
    LET r == [tx \in SendOutcomes(s) |->
                 writeMsg(sock[s], node_.name, environ, tx, message)]
    IN  Write("writeMsg(msg)", s, [NoArgs EXCEPT !.message = message], r)

WriteMsgParts(s, message, parts) ==
    LET r == [tx \in SendOutcomes(s) |->
                 writeMsgParts(sock[s], node_.name, environ, tx, message, parts)]
    IN  Write("writeMsg(msg,parts)", s,
              [NoArgs EXCEPT !.message = message, !.parts = parts], r)

\* what zmq::poll can do for ZMQ_POLLIN on socket s: report the socket
\* ready, when a datagram is queued; report nothing when none arrives
\* within `timeout` ms (with -1 the call waits without limit); throw
PollOutcomes(s, timeout) ==
    {"error"}
    \cup (IF sock[s].type_ # "PUB" /\ inbox[s] # <<>> THEN {"ready"}
          ELSE IF timeout >= 0 THEN {"timeout"}
          ELSE {})

\* Socket::poll: what it returns when zmq::poll did px
poll(px) ==
    [Call EXCEPT !.steps = <<"poll">>,
                 !.outcome = CASE px = "error" -> "zmq::error_t"
                               [] px = "ready" -> "true"
                               [] OTHER -> "false"]

\* Poll that takes the frame it found
PollTaking(s, timeout) ==
    /\ Live(s)
    /\ \E px \in PollOutcomes(s, timeout) :
          /\ last' = [Done("poll", s, [NoArgs EXCEPT !.timeout = timeout],
                           NoFrame, poll(px)) EXCEPT !.io = px]
          /\ inbox' = IF px = "ready" THEN [inbox EXCEPT ![s] = Tail(@)]
                      ELSE inbox
    /\ UNCHANGED <<node_, sock, environ, arg>>

\* Socket::poll
Poll(s, timeout) ==
    /\ Live(s)
    /\ \E px \in PollOutcomes(s, timeout) :
          last' = [Done("poll", s, [NoArgs EXCEPT !.timeout = timeout],
                        NoFrame, poll(px)) EXCEPT !.io = px]
    /\ UNCHANGED <<node_, sock, inbox, environ, arg>>

\* Socket::matchesPattern, called with the pattern `arg`
MatchesPattern(s) ==
    /\ Live(s)
    /\ last' = Done("matchesPattern", s, [NoArgs EXCEPT !.pattern = arg], NoFrame,
                    [Call EXCEPT !.outcome =
                        IF matchesPattern(node_.name, sock[s].name_, arg)
                        THEN "true" ELSE "false"])
    /\ UNCHANGED <<node_, sock, inbox, environ, arg>>

\* The transport delivers to s a datagram of a peer that is no Socket of
\* this model: any frames, the last one without the "more" flag
Deliver(s, frames) ==
    /\ Live(s)
    /\ sock[s].type_ \in {"SUB", "PAIR"}
    /\ HasRoom(s)
    /\ inbox' = Enqueue(s, frames)
    /\ UNCHANGED <<node_, sock, environ, arg, last>>

-----------------------------------------------------------------------------
(* The values the callers and the transport's peers choose from *)

Names == {Odom, Odom2}
Types == {"t", "u"}
Values == DOMAIN Digit
Levels == {0, 9}
Messages == {Message(t, v) : t \in Types, v \in Values}

\* parts a caller builds itself
PartA == MessagePart(<<"x">>, "t", "", 0)
PartB == MessagePart(MsgEncode(2), "u", "z", 9)
CallerParts == {PartA, PartB}

RECURSIVE ListsUpTo(_, _)
ListsUpTo(items, n) ==
    IF n = 0 THEN {<<>>}
    ELSE LET shorter == ListsUpTo(items, n - 1)
         IN  shorter \cup {<<i>> \o l : i \in items, l \in shorter}

PartsLists == ListsUpTo(CallerParts, MaxParts)

\* the headers a caller can put in an envelope it builds itself
CallerHeaders == {NoHeaders} \cup {OneHeader(HeaderKey, n) : n \in Names}

\* what parts[0] of an empty vector can turn out to be
UndefinedReads ==
    {[crash |-> TRUE, part |-> MessagePart(<<>>, "", "", 0)],
     [crash |-> FALSE, part |-> MessagePart(MsgEncode(1), "t", "", 0)]}

\* a variable of the process environment
Unset == [set |-> FALSE, value |-> <<>>]
SetTo(value) == [set |-> TRUE, value |-> value]
Environ(debug_socket, extended) ==
    [B0_DEBUG_SOCKET |-> debug_socket, B0_DEBUG_SOCKET_EXTENDED |-> extended]

\* datagrams of peers that are no Socket: bytes that are no envelope, and
\* a datagram of two frames
ForeignDatagrams ==
    {<<Frame(Malformed, FALSE, NoOrigin)>>,
     <<Frame(EnvEncode(EmptyEnvelope), TRUE, NoOrigin),
       Frame(EnvEncode(EmptyEnvelope), FALSE, NoOrigin)>>}

\* the state after socket 1 (of type1, named name1) and socket 2 were
\* constructed as managed sockets of node robot1, in this order, and
\* setReadHWM(1) was called on socket 2
TwoSockets(type1, name1, type2, name2, level0) ==
    LET c1 == ctor(1, NewNode(Robot1), type1, name1, TRUE, level0)
        c2 == ctor(2, c1.node, type2, name2, TRUE, level0)
    IN  /\ node_ = c2.node
        /\ sock = [s \in Socks |->
                     IF s = 1 THEN c1.sk
                     ELSE IF s = 2 THEN setIntOption(c2.sk, "ZMQ_RCVHWM", 1)
                     ELSE NoSocket("unborn")]
        /\ inbox = [s \in Socks |-> <<>>]
        /\ arg = <<>>
        /\ last = NoCall

-----------------------------------------------------------------------------
(* Spec: a publisher "odom" and a subscriber of node robot1; envelopes     *)
(* with and without the header cross from one to the other                 *)

Init ==
    /\ \E name2 \in Names, level0 \in Levels :
          TwoSockets("PUB", Odom, "SUB", name2, level0)
    /\ environ = Environ(Unset, Unset)

Next ==
    \E s \in Socks :
        \/ \E b \in BOOLEAN : SetHasHeader(s, b)
        \/ \E headers \in CallerHeaders :
              WriteRawEnv(s, MessageEnvelope(<<PartA>>, headers))
        \/ \E parts \in {<<>>, <<PartA>>} : WriteRawParts(s, parts)
        \/ WriteRawPayload(s, <<"x">>, "t")
        \/ WriteMsg(s, Message("t", 1))
        \/ WriteMsgParts(s, Message("u", 2), <<PartA>>)
        \/ ReadRawEnv(s, EmptyEnvelope)
        \/ ReadRawParts(s, <<PartB>>)
        \/ \E frames \in ForeignDatagrams : Deliver(s, frames)

Spec == Init /\ [][Next]_vars

-----------------------------------------------------------------------------
(* Properties of the header stamp and the header check (Spec) *)

ReadOps ==
    {"readRaw(env)", "readRaw(parts)", "readRaw(msg,type)", "readMsg(msg)",
     "readMsg(msg,parts)"}

WriteOps ==
    {"writeRaw(env)", "writeRaw(parts)", "writeRaw(msg,type)", "writeMsg(msg)",
     "writeMsg(msg,parts)"}

\* the last call was a read that took a single frame holding an envelope
ReadAnEnvelope ==
    /\ last.op \in ReadOps
    /\ "recv" \in {last.r.steps[i] : i \in 1..Len(last.r.steps)}
    /\ last.r.outcome \notin {"zmq::error_t", "SocketReadError"}
    /\ ~last.rx.more
    /\ last.rx.data.wellformed

\* the envelope in the frame the last call took
Received == last.rx.data.of

\* C1: whenever a socket with has_header_ set transmits a datagram, by any
\* of its write methods, the envelope in the datagram has a "Header" equal
\* to the socket's name.
C1_HeaderStampedOnEveryWrite ==
    (/\ last.op \in WriteOps
     /\ last.r.wire # <<>>
     /\ sock[last.sock].has_header_)
    => LET onWire == last.r.wire[1].of
       IN  /\ HeaderKey \in DOMAIN onWire.headers
           /\ onWire.headers[HeaderKey] = sock[last.sock].name_

\* C2: a read by a socket with has_header_ set of an envelope that has a
\* "Header" succeeds when the header equals the socket's name, and fails
\* with HeaderMismatch(received header, socket's name) when it differs.
C2_HeaderChecked ==
    (/\ ReadAnEnvelope
     /\ last.op \in {"readRaw(env)", "readRaw(parts)"}
     /\ sock[last.sock].has_header_
     /\ HeaderKey \in DOMAIN Received.headers)
    => IF Received.headers[HeaderKey] = sock[last.sock].name_
       THEN last.r.outcome = "ok"
       ELSE /\ last.r.outcome = "HeaderMismatch"
            /\ last.r.actual = Received.headers[HeaderKey]
            /\ last.r.expected = sock[last.sock].name_

\* C2 witness: socket "odom2" with has_header_ set read the envelope that
\* socket "odom" with has_header_ set wrote, and failed with
\* HeaderMismatch("odom", "odom2")
C2_Witness ==
    /\ last.op = "readRaw(env)"
    /\ sock[last.sock].has_header_
    /\ sock[last.sock].name_ = Odom2
    /\ last.rx.origin.op = "writeRaw(parts)"
    /\ last.rx.origin.has_header
    /\ last.rx.origin.name = Odom
    /\ last.r.outcome = "HeaderMismatch"
    /\ last.r.actual = Odom
    /\ last.r.expected = Odom2

\* C3: a read whose frame has the "more frames follow" flag fails with
\* MessageTooManyPartsError and does not parse the frame.
C3_MoreFramesRejected ==
    (/\ last.op \in ReadOps
     /\ last.rx.more)
    => /\ last.r.outcome = "MessageTooManyPartsError"
       /\ \A i \in 1..Len(last.r.steps) : last.r.steps[i] # "parse"

\* C3 witness: a readRaw took a frame with the flag
C3_Witness ==
    /\ last.op = "readRaw(env)"
    /\ last.rx.more
    /\ last.r.outcome = "MessageTooManyPartsError"

\* C9: a read of an envelope without a "Header" fails, and not as a
\* mismatch with an assumed header, when the socket has has_header_ set,
\* and succeeds when it has not.
C9_MissingHeader ==
    (/\ ReadAnEnvelope
     /\ last.op \in {"readRaw(env)", "readRaw(parts)"}
     /\ HeaderKey \notin DOMAIN Received.headers)
    => IF sock[last.sock].has_header_
       THEN last.r.outcome \notin {"ok", "HeaderMismatch"}
       ELSE last.r.outcome = "ok"

\* C9 witness: a socket with has_header_ set read an envelope without a
\* "Header" and the read failed
C9_Witness ==
    /\ ReadAnEnvelope
    /\ last.op = "readRaw(env)"
    /\ HeaderKey \notin DOMAIN Received.headers
    /\ sock[last.sock].has_header_
    /\ last.r.outcome = "std::out_of_range"

-----------------------------------------------------------------------------
(* SpecMsg: the publisher of topic "odom" writes typed messages, alone    *)
(* and with further parts, and the subscriber of the topic reads them      *)
(* into message objects                                                    *)

InitMsg ==
    /\ \E level0 \in Levels : TwoSockets("PUB", Odom, "SUB", Odom, level0)
    /\ environ = Environ(Unset, Unset)

NextMsg ==
    \E s \in Socks :
        \/ \E b \in BOOLEAN : SetHasHeader(s, b)
        \/ \E m \in {Message("t", 2), Message("u", 1)} : WriteMsg(s, m)
        \/ \E parts \in PartsLists : WriteMsgParts(s, Message("t", 2), parts)
        \/ WriteRawParts(s, <<>>)
        \/ \E ub \in UndefinedReads, t \in Types : ReadMsg(s, ub, Message(t, 1))
        \/ \E ub \in UndefinedReads, t \in Types :
              ReadMsgParts(s, ub, Message(t, 1), <<PartB>>)

SpecMsg == InitMsg /\ [][NextMsg]_vars

\* the socket of the last call and the socket that wrote the frame it took
\* have the same has_header_ and the same name
WriterAgrees ==
    /\ last.rx.origin.has_header = sock[last.sock].has_header_
    /\ last.rx.origin.name = sock[last.sock].name_

IsStep(r, step) == \E i \in 1..Len(r.steps) : r.steps[i] = step

\* C4: readMsg(m') of a datagram that writeMsg(m) of an agreeing socket
\* sent returns m' = m when the types of m' and m are equal; and whenever
\* the first part's content type is not the type of m', readMsg fails with
\* EnvelopeDecodeError and does not call the message's parseFromString.
C4_MsgRoundTrip ==
    /\ (/\ last.op = "readMsg(msg)"
        /\ last.rx.origin.op = "writeMsg(msg)"
        /\ WriterAgrees
        /\ last.args.message.type = last.rx.origin.message.type)
       => /\ last.r.outcome = "ok"
          /\ last.r.message = last.rx.origin.message
    /\ (/\ last.op = "readMsg(msg)"
        /\ ReadAnEnvelope
        /\ last.r.outcome \notin {"HeaderMismatch", "std::out_of_range"}
        /\ Received.parts # <<>>
        /\ Received.parts[1].content_type # last.args.message.type)
       => /\ last.r.outcome = "EnvelopeDecodeError"
          /\ ~IsStep(last.r, "msg.parse")
          /\ last.r.message = last.args.message

\* C4 witness: with has_header_ set on both sides, readMsg into a message
\* object that held the value 1 returned the written message of value 2
C4_Witness ==
    /\ last.op = "readMsg(msg)"
    /\ last.rx.origin.op = "writeMsg(msg)"
    /\ WriterAgrees
    /\ sock[last.sock].has_header_
    /\ last.r.outcome = "ok"
    /\ last.args.message.value = 1
    /\ last.r.message = last.rx.origin.message
    /\ last.r.message.value = 2

\* C10: the envelope writeMsg(m, parts) sends is the part of m (its
\* serialization, tagged with its type) followed by `parts`; a successful
\* readMsg(m', parts') returns the received parts after the first; so
\* parts' is the list of parts the writer was given.
C10_PartsRoundTrip ==
    /\ (last.op = "writeMsg(msg,parts)" /\ last.r.wire # <<>>)
       => LET sent == last.r.wire[1].of.parts
          IN  /\ sent # <<>>
              /\ sent[1].payload = MsgEncode(last.args.message.value)
              /\ sent[1].content_type = last.args.message.type
              /\ Tail(sent) = last.args.parts
    /\ (last.op = "readMsg(msg,parts)" /\ last.r.outcome = "ok" /\ ReadAnEnvelope
        /\ Received.parts # <<>>)
       => last.r.parts = Tail(Received.parts)
    /\ (/\ last.op = "readMsg(msg,parts)"
        /\ last.r.outcome = "ok"
        /\ last.rx.origin.op = "writeMsg(msg,parts)")
       => /\ last.r.parts = last.rx.origin.parts
          /\ last.r.message = last.rx.origin.message

\* C10 witness: readMsg(m', parts') returned the two different parts the
\* writer gave to writeMsg, in the writer's order
C10_Witness ==
    /\ last.op = "readMsg(msg,parts)"
    /\ last.r.outcome = "ok"
    /\ last.rx.origin.op = "writeMsg(msg,parts)"
    /\ last.rx.origin.parts = <<PartB, PartA>>
    /\ last.r.parts = <<PartB, PartA>>

-----------------------------------------------------------------------------
(* SpecLife: the sockets of node robot1 are constructed and destroyed in   *)
(* any order                                                               *)

NoSockets(name) ==
    /\ node_ = NewNode(name)
    /\ sock = [s \in Socks |-> NoSocket("unborn")]
    /\ inbox = [s \in Socks |-> <<>>]
    /\ last = NoCall

InitLife ==
    /\ NoSockets(Robot1)
    /\ environ = Environ(Unset, Unset)
    /\ arg = <<>>

NextLife ==
    \E s \in Socks :
        \/ \E managed \in BOOLEAN, level0 \in Levels, fails \in BOOLEAN :
              Construct(s, "PAIR", Odom, managed, level0, fails)
        \/ Destroy(s)
        \/ \E b \in BOOLEAN : SetHasHeader(s, b)

SpecLife == InitLife /\ [][NextLife]_vars

\* C5: a managed socket is added to its node once, when it is constructed,
\* and removed once, when it is destroyed, and not before; an unmanaged
\* socket is never added or removed; the node's set of sockets is the set
\* of the live managed sockets.
C5_RegisteredOnce ==
    /\ \A s \in Socks :
          LET added == node_.added[s]
              removed == node_.removed[s]
          IN  CASE sock[s].state = "unborn" -> added = 0 /\ removed = 0
                [] sock[s].state = "live" ->
                      /\ added = (IF sock[s].managed_ THEN 1 ELSE 0)
                      /\ removed = 0
                [] sock[s].state = "dead" ->
                      /\ added = (IF sock[s].managed_ THEN 1 ELSE 0)
                      /\ removed = added
    /\ node_.sockets = {s \in Socks : Live(s) /\ sock[s].managed_}

\* C5 witness: of three sockets, a managed one constructed between the two
\* others is destroyed first, then an unmanaged one; the third is still
\* registered
C5_Witness ==
    /\ Live(1) /\ sock[1].managed_
    /\ sock[2].state = "dead" /\ sock[2].managed_
    /\ sock[3].state = "dead" /\ ~sock[3].managed_
    /\ node_.sockets = {1}
    /\ node_.removed[2] = 1
    /\ last.op = "~Socket" /\ last.sock = 3

-----------------------------------------------------------------------------
(* SpecOptions: one socket, of any type, and its transport options *)

Kinds == {"PUB", "SUB", "PAIR"}

NextOptions ==
    \/ \E type \in Kinds, managed \in BOOLEAN, level0 \in Levels,
          fails \in BOOLEAN :
             Construct(1, type, Odom, managed, level0, fails)
    \/ SetLingerPeriod(1, 0)
    \/ SetReadTimeout(1, 0)
    \/ SetWriteTimeout(1, 0)
    \/ SetBacklog(1, 1)
    \/ SetImmediate(1, TRUE)
    \/ SetConflate(1, TRUE)
    \/ SetReadHWM(1, 1)
    \/ SetWriteHWM(1, 1)
    \/ \E option \in {"ZMQ_LINGER", "ZMQ_RCVTIMEO"} : Setsockopt(1, option, 0)
    \/ SetHasHeader(1, TRUE)
    \/ SetCompression(1, "z", 9)
    \/ WriteRawParts(1, <<PartA>>)
    \/ ReadRawParts(1, <<>>)
    \/ Deliver(1, <<Frame(Malformed, FALSE, NoOrigin)>>)

SpecOptions == InitLife /\ [][NextOptions]_vars

\* C6: a socket's linger period is 5000 when its constructor returns, and
\* after that no call changes it but setLingerPeriod, or setsockopt of
\* ZMQ_LINGER, on that socket.
C6_LingerPeriod ==
    [][\A s \in Socks :
         sock'[s].state = "live" =>
            IF sock[s].state # "live"
            THEN getLingerPeriod(sock'[s]) = LingerPeriod
            ELSE \/ getLingerPeriod(sock'[s]) = getLingerPeriod(sock[s])
                 \/ /\ last'.sock = s
                    /\ last'.op \in {"setLingerPeriod", "setsockopt"}
                    /\ last'.args.option = "ZMQ_LINGER"]_vars

\* C6 witness: after other options were set, the header flag and the
\* compression were set and a datagram was read, getLingerPeriod is 5000
C6_Witness ==
    /\ last.op = "readRaw(parts)" /\ last.sock = 1
    /\ last.r.outcome = "parse error"
    /\ sock[1].has_header_
    /\ sock[1].compression_level_ = 9
    /\ getIntOption(sock[1], "ZMQ_RCVTIMEO") = 0
    /\ getIntOption(sock[1], "ZMQ_RCVHWM") = 1
    /\ getLingerPeriod(sock[1]) = LingerPeriod

-----------------------------------------------------------------------------
(* SpecPattern: matchesPattern on every short pattern, for sockets and     *)
(* nodes with short names                                                  *)

PatternChars == {"a", "b", "*", "."}
Patterns == StringsUpTo(PatternChars, MaxPatLen)
ShortNodeNames == {<<"a">>, <<"a", "b">>, <<>>}
ShortNames == {<<"a">>, <<"b">>, <<"a", "b">>, <<"b", ".">>, <<>>}

\* the state after socket 1, named `name`, was constructed in node `node`
OneSocket(node, name, level0) ==
    LET c1 == ctor(1, NewNode(node), "PAIR", name, TRUE, level0)
    IN  /\ node_ = c1.node
        /\ sock = [s \in Socks |-> IF s = 1 THEN c1.sk ELSE NoSocket("unborn")]
        /\ inbox = [s \in Socks |-> <<>>]
        /\ last = NoCall

InitPattern ==
    /\ \E node \in ShortNodeNames, name \in ShortNames, level0 \in Levels :
          OneSocket(node, name, level0)
    /\ arg \in Patterns
    /\ environ = Environ(Unset, Unset)

NextPattern == MatchesPattern(1)

SpecPattern == InitPattern /\ [][NextPattern]_vars

\* pattern p is "*", or has a first '.' with "*" or the node's name before
\* it and "*" or the socket's name after it
PatternSelects(p, node, name) ==
    \/ p = Star
    \/ \E i \in 1..Len(p) :
          /\ p[i] = "."
          /\ \A j \in 1..(i - 1) : p[j] # "."
          /\ SubSeq(p, 1, i - 1) \in {Star, node}
          /\ SubSeq(p, i + 1, Len(p)) \in {Star, name}

\* C7: matchesPattern(p) is true exactly when p is "*", or p has a '.'
\* and, split at its first '.', its node part is "*" or the node's name
\* and its socket part is "*" or the socket's name.
C7_MatchesPattern ==
    last.op = "matchesPattern"
    => /\ (last.r.outcome = "true")
            <=> PatternSelects(last.args.pattern, node_.name, sock[last.sock].name_)
       /\ (last.args.pattern # Star
            /\ \A i \in 1..Len(last.args.pattern) : last.args.pattern[i] # ".")
          => last.r.outcome = "false"

\* C7 witness: the pattern "a.b." matched socket "b." of node "a"
C7_Witness ==
    /\ last.op = "matchesPattern"
    /\ last.args.pattern = <<"a", ".", "b", ".">>
    /\ node_.name = <<"a">>
    /\ sock[last.sock].name_ = <<"b", ".">>
    /\ last.r.outcome = "true"

-----------------------------------------------------------------------------
(* SpecDebug: socket "a" writes to socket "aa" of node "a" under every     *)
(* short value of B0_DEBUG_SOCKET, and with the variable not set           *)

DebugChars == {"a", "*", ".", ":", ";"}

InitDebug ==
    /\ \E level0 \in Levels :
          TwoSockets("PUB", <<"a">>, "SUB", <<"a", "a">>, level0)
    /\ \E debug_socket \in
            {Unset} \cup {SetTo(v) : v \in StringsUpTo(DebugChars, MaxPatLen)} :
          environ = Environ(debug_socket, Unset)

NextDebug ==
    \E s \in Socks :
        \/ WriteRawParts(s, <<PartA>>)
        \/ ReadRawParts(s, <<>>)

SpecDebug == InitDebug /\ [][NextDebug]_vars

\* the patterns of a B0_DEBUG_SOCKET value: its longest pieces without
\* ':' and ';'
PatternsOf(value) ==
    LET pieces == {ij \in (1..(Len(value) + 1)) \X (0..Len(value)) :
                      /\ ij[2] >= ij[1] - 1
                      /\ ij[1] = 1 \/ value[ij[1] - 1] \in {":", ";"}
                      /\ ij[2] = Len(value) \/ value[ij[2] + 1] \in {":", ";"}
                      /\ \A k \in ij[1]..ij[2] : value[k] \notin {":", ";"}}
    IN  {SubSeq(value, ij[1], ij[2]) : ij \in pieces}

\* C8: a read or write that reaches the debug hook writes a trace exactly
\* when a pattern of B0_DEBUG_SOCKET selects the socket; with the variable
\* not set or empty no call writes a trace.
C8_DebugFilter ==
    last.op \in ReadOps \cup WriteOps
    => LET value == IF environ.B0_DEBUG_SOCKET.set
                    THEN environ.B0_DEBUG_SOCKET.value ELSE <<>>
           selected == \E p \in PatternsOf(value) :
                          PatternSelects(p, node_.name, sock[last.sock].name_)
       IN  /\ Len(last.r.dump) =
                 (IF IsStep(last.r, "dump") /\ selected THEN 1 ELSE 0)
           /\ value = <<>> => last.r.dump = <<>>

\* C8 witness: with B0_DEBUG_SOCKET = ".a;*", whose second pattern, after
\* a ';', is the only one that selects the socket, the write of socket "a"
\* was traced
C8_Witness ==
    /\ last.op = "writeRaw(parts)"
    /\ last.sock = 1
    /\ environ.B0_DEBUG_SOCKET.value = <<".", "a", ";", "*">>
    /\ Len(last.r.dump) = 1
    /\ last.r.dump[1].op = "send"

-----------------------------------------------------------------------------
(* SpecRead: the subscriber reads, by every read method and into objects   *)
(* that hold earlier values, what the publisher wrote and what peers that  *)
(* are no Socket sent: envelopes without parts, bytes that are no          *)
(* envelope, and a datagram fragmented into three frames                   *)

\* a datagram of three frames, every frame with bytes of its own
Fragmented ==
    <<Frame(Malformed, TRUE, NoOrigin),
      Frame(EnvEncode(EmptyEnvelope), TRUE, NoOrigin),
      Frame(EnvEncode(MessageEnvelope(<<PartA>>, NoHeaders)), FALSE, NoOrigin)>>

InitRead ==
    /\ \E name2 \in Names, level0 \in Levels :
          TwoSockets("PUB", Odom, "SUB", name2, level0)
    /\ environ = Environ(Unset, Unset)

NextRead ==
    \E s \in Socks :
        \/ SetHasHeader(s, TRUE)
        \/ SetReadTimeout(s, 0)
        \/ \E parts \in {<<>>, <<PartA>>} : WriteRawParts(s, parts)
        \/ \E frames \in {<<Frame(Malformed, FALSE, NoOrigin)>>, Fragmented} :
              Deliver(s, frames)
        \/ ReadRawEnv(s, MessageEnvelope(<<PartB>>, NoHeaders))
        \/ ReadRawParts(s, <<PartB>>)
        \/ \E ub \in UndefinedReads : ReadRawPayload(s, ub, <<"y">>, "u")
        \/ \E ub \in UndefinedReads : ReadMsg(s, ub, Message("t", 2))
        \/ \E ub \in UndefinedReads :
              ReadMsgParts(s, ub, Message("t", 2), <<PartB>>)

SpecRead == InitRead /\ [][NextRead]_vars

\* the exceptions a read call can leave with
ReadErrors ==
    {"zmq::error_t", "SocketReadError", "MessageTooManyPartsError",
     "parse error", "std::out_of_range", "HeaderMismatch",
     "EnvelopeDecodeError", "msg parse error"}

\* C11: a read by readRaw(msg, type), readMsg(msg) or readMsg(msg, parts)
\* of an envelope without parts ends in an exception, and the caller's
\* payload, content type and message are not written from a part that the
\* envelope does not have.
C11_ZeroPartsRejected ==
    (/\ last.op \in {"readRaw(msg,type)", "readMsg(msg)", "readMsg(msg,parts)"}
     /\ ReadAnEnvelope
     /\ Received.parts = <<>>)
    => /\ last.r.outcome \in ReadErrors
       /\ last.r.payload = last.args.payload
       /\ last.r.type = last.args.type
       /\ last.r.message = last.args.message

-----------------------------------------------------------------------------
(* SpecIO: publisher and subscriber with and without timeouts, under an    *)
(* environment that traces no socket, every socket in compact mode, or     *)
(* the sockets named "odom" in extended mode                               *)

\* the method `op` called on the Socket sk with the arguments args, when
\* the transport does io (an outcome of recv for a read, of send for a
\* write)
call(op, sk, node, envr, io, ub, args) ==
    CASE op = "readRaw(env)" -> readRawEnv(sk, node, envr, io, args.env)
      [] op = "readRaw(parts)" -> readRawParts(sk, node, envr, io, args.parts)
      [] op = "readRaw(msg,type)" ->
            readRawPayload(sk, node, envr, io, ub, args.payload, args.type)
      [] op = "readMsg(msg)" -> readMsg(sk, node, envr, io, ub, args.message)
      [] op = "readMsg(msg,parts)" ->
            readMsgParts(sk, node, envr, io, ub, args.message, args.parts)
      [] op = "writeRaw(env)" -> writeRawEnv(sk, node, envr, io, args.env)
      [] op = "writeRaw(parts)" -> writeRawParts(sk, node, envr, io, args.parts)
      [] op = "writeRaw(msg,type)" ->
            writeRawPayload(sk, node, envr, io, args.payload, args.type)
      [] op = "writeMsg(msg)" -> writeMsg(sk, node, envr, io, args.message)
      [] op = "writeMsg(msg,parts)" ->
            writeMsgParts(sk, node, envr, io, args.message, args.parts)

\* values of B0_DEBUG_SOCKET and B0_DEBUG_SOCKET_EXTENDED
DebugEnvirons ==
    {Environ(Unset, Unset),
     Environ(SetTo(Star), Unset),
     Environ(SetTo(<<"*", ".", "o", "d", "o", "m">>), SetTo(<<"1">>))}

\* the state after the publisher and the subscriber were constructed as in
\* TwoSockets and, when `timeout` is not -1, setWriteTimeout(timeout) was
\* called on the publisher and setReadTimeout(timeout) on the subscriber
TimedSockets(name2, level0, timeout) ==
    LET c1 == ctor(1, NewNode(Robot1), "PUB", Odom, TRUE, level0)
        c2 == ctor(2, c1.node, "SUB", name2, TRUE, level0)
    IN  /\ node_ = c2.node
        /\ sock = [s \in Socks |->
                     IF s = 1 THEN setIntOption(c1.sk, "ZMQ_SNDTIMEO", timeout)
                     ELSE IF s = 2
                          THEN setIntOption(
                                  setIntOption(c2.sk, "ZMQ_RCVHWM", 1),
                                  "ZMQ_RCVTIMEO", timeout)
                     ELSE NoSocket("unborn")]
        /\ inbox = [s \in Socks |-> <<>>]
        /\ arg = <<>>
        /\ last = NoCall

InitIO ==
    /\ \E name2 \in Names, level0 \in Levels, timeout \in {-1, 0} :
          TimedSockets(name2, level0, timeout)
    /\ environ \in DebugEnvirons

NextIO ==
    \/ \E s \in Socks : SetHasHeader(s, TRUE)
    \/ WriteRawEnv(1, MessageEnvelope(<<PartA>>, NoHeaders))
    \/ WriteRawParts(1, <<PartA>>)
    \/ WriteRawPayload(1, <<"x">>, "t")
    \/ WriteMsg(1, Message("t", 1))
    \/ WriteMsgParts(1, Message("t", 1), <<PartA>>)
    \/ \E frames \in {<<Frame(Malformed, FALSE, NoOrigin)>>, Fragmented} :
          Deliver(2, frames)
    \/ ReadRawEnv(2, EmptyEnvelope)
    \/ ReadRawParts(2, <<PartB>>)
    \/ \E ub \in UndefinedReads : ReadRawPayload(2, ub, <<"y">>, "u")
    \/ \E ub \in UndefinedReads : ReadMsg(2, ub, Message("t", 2))
    \/ \E ub \in UndefinedReads : ReadMsgParts(2, ub, Message("t", 2), <<PartB>>)

SpecIO == InitIO /\ [][NextIO]_vars

\* a call without what dumpPayload wrote
Untraced(r) == [r EXCEPT !.dump = <<>>]

\* C12: every read and write, traced or not and in either rendering mode,
\* has the outcome, leaves the values in the caller's objects, runs the
\* steps and hands the transport the datagram that the same call, with the
\* transport doing the same, has when B0_DEBUG_SOCKET and
\* B0_DEBUG_SOCKET_EXTENDED are not set.
C12_HookDoesNotInterfere ==
    /\ last.op \in ReadOps =>
          \E ub \in UndefinedReads :
             Untraced(last.r)
             = call(last.op, sock[last.sock], node_.name, Environ(Unset, Unset),
                    [kind |-> last.io, frame |-> last.rx], ub, last.args)
    /\ last.op \in WriteOps =>
          \E ub \in UndefinedReads :
             Untraced(last.r)
             = call(last.op, sock[last.sock], node_.name, Environ(Unset, Unset),
                    last.io, ub, last.args)

\* C12 witness: with B0_DEBUG_SOCKET = "*" the subscriber's read was
\* traced and then failed the header check
C12_Witness ==
    /\ last.op = "readRaw(parts)"
    /\ environ = Environ(SetTo(Star), Unset)
    /\ Len(last.r.dump) = 1
    /\ last.r.outcome = "HeaderMismatch"
    /\ last.r.parts = <<PartB>>

-----------------------------------------------------------------------------
(* SpecCompression: publisher and subscriber change their compression      *)
(* settings between writes and reads of parts that carry settings of       *)
(* their own                                                               *)

InitCompression ==
    /\ \E level0 \in Levels : TwoSockets("PUB", Odom, "SUB", Odom, level0)
    /\ environ = Environ(Unset, Unset)

NextCompression ==
    \E s \in Socks :
        \/ \E c \in {<<"z", 9>>, <<"lz4", 1>>} : SetCompression(s, c[1], c[2])
        \/ WriteRawParts(s, <<PartA, PartB>>)
        \/ WriteRawPayload(s, <<"x">>, "t")
        \/ WriteMsg(s, Message("t", 1))
        \/ WriteMsgParts(s, Message("t", 1), <<PartA, PartB>>)
        \/ ReadRawParts(s, <<>>)
        \/ \E ub \in UndefinedReads : ReadMsgParts(s, ub, Message("t", 2), <<>>)

SpecCompression == InitCompression /\ [][NextCompression]_vars

\* the compression fields of a part, or of a Socket
PartCompression(part) == <<part.compression_algorithm, part.compression_level>>
SocketCompression(sk) == <<sk.compression_algorithm_, sk.compression_level_>>

\* what holds after every step about the call that was made last
CompressionApplied ==
    LET sk == sock[last.sock]
        sent == last.r.wire[1].of.parts
    IN  /\ last.op = "setCompression" =>
              SocketCompression(sk) = <<last.args.algorithm, last.args.level>>
        /\ (last.op \in {"writeRaw(msg,type)", "writeMsg(msg)"}
            /\ last.r.wire # <<>>) =>
              /\ Len(sent) = 1
              /\ PartCompression(sent[1]) = SocketCompression(sk)
        /\ (last.op = "writeMsg(msg,parts)" /\ last.r.wire # <<>>) =>
              /\ PartCompression(sent[1]) = SocketCompression(sk)
              /\ Tail(sent) = last.args.parts
        /\ (last.op = "writeRaw(parts)" /\ last.r.wire # <<>>) =>
              sent = last.args.parts
        /\ (last.op = "readRaw(parts)" /\ last.r.outcome = "ok") =>
              last.r.parts = Received.parts
        /\ (last.op = "readMsg(msg,parts)" /\ last.r.outcome = "ok") =>
              last.r.parts = Tail(Received.parts)

\* C13: setCompression(a, l) sets the socket's pair to (a, l), and no
\* other call changes the pair; the part that writeRaw(msg, type) builds
\* and the first part that writeMsg builds carry the socket's pair; the
\* parts a caller hands to writeRaw(parts) or to writeMsg go out as they
\* are; a read returns the received parts as they are, whatever the
\* reader's pair is.
C13_CompressionOfOwnParts ==
    [][/\ CompressionApplied'
       /\ \A s \in Socks :
             (Live(s) /\ SocketCompression(sock'[s]) # SocketCompression(sock[s]))
             => (last'.op = "setCompression" /\ last'.sock = s)]_vars

\* C13 witness: after setCompression("lz4", 1) replaced the publisher's
\* earlier setting, the subscriber, itself set to ("z", 9), read the
\* publisher's message part with ("lz4", 1) and the caller's parts with
\* their own settings
C13_Witness ==
    /\ last.op = "readRaw(parts)" /\ last.sock = 2
    /\ last.r.outcome = "ok"
    /\ SocketCompression(sock[1]) = <<"lz4", 1>>
    /\ SocketCompression(sock[2]) = <<"z", 9>>
    /\ last.rx.origin.op = "writeMsg(msg,parts)"
    /\ Len(last.r.parts) = 3
    /\ PartCompression(last.r.parts[1]) = <<"lz4", 1>>
    /\ PartCompression(last.r.parts[2]) = <<"", 0>>
    /\ PartCompression(last.r.parts[3]) = <<"z", 9>>

-----------------------------------------------------------------------------
(* Properties of the transport calls and of the order of the steps (SpecIO) *)

\* how often a call ran the step
Times(r, step) == Cardinality({i \in 1..Len(r.steps) : r.steps[i] = step})

\* C14: a write calls send once at most and a read calls recv once at
\* most; a write that returns normally handed exactly one datagram to the
\* transport; a write whose send failed leaves with SocketWriteError and
\* a read whose recv failed leaves with SocketReadError, with nothing
\* transmitted and no further transport call.
C14_OneTransportCall ==
    /\ last.op \in WriteOps =>
          /\ Times(last.r, "send") <= 1
          /\ last.r.outcome = "ok" => Len(last.r.wire) = 1
          /\ last.io # "ok" =>
                /\ last.r.outcome = "SocketWriteError"
                /\ last.r.wire = <<>>
    /\ last.op \in ReadOps =>
          /\ Times(last.r, "recv") <= 1
          /\ last.io # "frame" => last.r.outcome = "SocketReadError"

-----------------------------------------------------------------------------
(* SpecPoll: the subscriber polls, with and without a timeout, between     *)
(* the arrivals of datagrams and its reads                                 *)

\* the timeouts a caller of poll passes: none, return at once, 10 ms
PollTimeouts == {-1, 0, 10}

InitPoll ==
    /\ \E name2 \in Names, level0 \in Levels :
          TwoSockets("PUB", Odom, "SUB", name2, level0)
    /\ environ = Environ(Unset, Unset)

NextPoll ==
    \E s \in Socks :
        \/ SetHasHeader(s, TRUE)
        \/ WriteRawParts(s, <<PartA>>)
        \/ WriteMsg(s, Message("t", 1))
        \/ \E frames \in {<<Frame(Malformed, FALSE, NoOrigin)>>, Fragmented} :
              Deliver(s, frames)
        \/ \E timeout \in PollTimeouts : Poll(s, timeout)
        \/ ReadRawParts(s, <<>>)

SpecPoll == InitPoll /\ [][NextPoll]_vars

\* C15: a call of poll leaves every inbound queue as it was, so that recv
\* on the socket can do after the call exactly what it could do before
\* it; poll returns true only when the socket's queue held a datagram
\* when it was called.
C15_PollDoesNotConsume ==
    [][\A s \in Socks :
          (last'.op = "poll" /\ last'.sock = s /\ last' # last)
          => /\ inbox' = inbox
             /\ RecvOutcomes(s)' = RecvOutcomes(s)
             /\ last'.r.outcome = "true" => inbox[s] # <<>>]_vars

\* C15 witness: poll returned true on the subscriber, whose queue still
\* holds the publisher's datagram
C15_Witness ==
    /\ last.op = "poll" /\ last.sock = 2
    /\ last.r.outcome = "true"
    /\ Len(inbox[2]) = 1
    /\ inbox[2][1].origin.op = "writeMsg(msg)"

-----------------------------------------------------------------------------
(* SpecRender: dumpPayload renders payloads of a few bytes, the bytes      *)
(* drawn from both sides of every boundary of the escaping.  A byte is a   *)
(* number in 0..255 (unsigned char c = payload[i]); `arg` is the payload.  *)

\* bytes in a rendered payload
MaxBytes == 2

\* the characters "0123456789abcdef" of the %02x conversion, by value
HexDigit(d) == IF d < 10 THEN 48 + d ELSE 87 + d

\* compactByte with the test for non-printable bytes one off at both ends
compactByteShifted(c) ==
    IF c = 10 THEN <<92, 110>>
    ELSE IF c = 13 THEN <<92, 114>>
    ELSE IF c = 9 THEN <<92, 116>>
    ELSE IF c <= 32 \/ c >= 126
         THEN <<92, 120, HexDigit(c \div 16), HexDigit(c % 16)>>
    ELSE <<c>>

\* dumpPayload, compact mode: what the loop body writes for the byte c
compactByte(c) ==
    IF c = 10 THEN <<92, 110>>
    ELSE IF c = 13 THEN <<92, 114>>
    ELSE IF c = 9 THEN <<92, 116>>
    ELSE IF c < 32 \/ c > 126
         THEN <<92, 120, HexDigit(c \div 16), HexDigit(c % 16)>>
    ELSE <<c>>

\* dumpPayload, compact mode: the loop over payload[i], from index i on
RECURSIVE compactFrom(_, _)
compactFrom(payload, i) ==
    IF i > Len(payload) THEN <<>>
    ELSE compactByte(payload[i]) \o compactFrom(payload, i + 1)

\* dumpPayload for a payload given by its bytes: the traces written to
\* std::cout, each with the fields of its head line and the text after it
dumpBytes(node, name, op, payload, envr) ==
    IF ~debugEnabled(node, name, envr) THEN <<>>
    ELSE IF EnvGetBool(envr, "B0_DEBUG_SOCKET_EXTENDED")
         THEN <<[ext |-> TRUE, node |-> node, sock |-> name, op |-> op,
                 len |-> Len(payload), text |-> payload]>>
         ELSE <<[ext |-> FALSE, node |-> node, sock |-> name, op |-> op,
                 len |-> Len(payload), text |-> compactFrom(payload, 1)]>>

\* dumpPayload(socket, op, payload) called for socket s with payload `arg`
DumpPayload(s, op) ==
    /\ Live(s)
    /\ last' = Done("dumpPayload", s, [NoArgs EXCEPT !.payload = arg], NoFrame,
                    [Call EXCEPT !.steps = <<"dump">>,
                                 !.dump = dumpBytes(node_.name, sock[s].name_,
                                                    op, arg, environ)])
    /\ UNCHANGED <<node_, sock, inbox, environ, arg>>

\* bytes at the boundaries: NUL, tab, newline, carriage return, 31, space,
\* 'A', backslash, '~', DEL, 128 and 255
RenderBytes == {0, 9, 10, 13, 31, 32, 65, 92, 126, 127, 128, 255}

InitRender ==
    /\ \E level0 \in Levels : OneSocket(Robot1, Odom, level0)
    /\ arg \in StringsUpTo(RenderBytes, MaxBytes)
    /\ environ \in DebugEnvirons

NextRender == \E op \in {"recv", "send"} : DumpPayload(1, op)

SpecRender == InitRender /\ [][NextRender]_vars

\* the rendering of one byte: itself when printable, a two-character
\* escape for newline, carriage return and tab, and \x with two hex digits
\* for every other byte
Rendering(b) ==
    LET hex == <<48, 49, 50, 51, 52, 53, 54, 55, 56, 57,
                 97, 98, 99, 100, 101, 102>>
        hi == CHOOSE h \in 0..15 : \E l \in 0..15 : 16 * h + l = b
    IN  CASE b \in 32..126 -> <<b>>
          [] b = 10 -> <<92, 110>>
          [] b = 13 -> <<92, 114>>
          [] b = 9 -> <<92, 116>>
          [] OTHER -> <<92, 120, hex[hi + 1], hex[b - 16 * hi + 1]>>

\* whether text, from position k on, is the renderings of the bytes of
\* payload from position i on, one after the other
RECURSIVE Renders(_, _, _, _)
Renders(text, k, payload, i) ==
    IF i > Len(payload) THEN k = Len(text) + 1
    ELSE LET piece == Rendering(payload[i])
         IN  /\ k + Len(piece) - 1 <= Len(text)
             /\ SubSeq(text, k, k + Len(piece) - 1) = piece
             /\ Renders(text, k + Len(piece), payload, i + 1)

\* C16: a trace in compact mode shows the payload as the renderings of its
\* bytes, one after the other in the payload's order, and its len field
\* is the number of bytes of the payload.
C16_CompactRendering ==
    (/\ last.op = "dumpPayload"
     /\ last.r.dump # <<>>
     /\ ~last.r.dump[1].ext)
    => /\ Renders(last.r.dump[1].text, 1, last.args.payload, 1)
       /\ last.r.dump[1].len = Len(last.args.payload)

\* C16 witness: the payload of a newline and the byte 255 was traced in
\* compact mode as \n\xff, with len=2
C16_Witness ==
    /\ last.op = "dumpPayload"
    /\ last.args.payload = <<10, 255>>
    /\ Len(last.r.dump) = 1
    /\ ~last.r.dump[1].ext
    /\ last.r.dump[1].text = <<92, 110, 92, 120, 102, 102>>
    /\ last.r.dump[1].len = 2

\* the steps of readRaw(MessageEnvelope&) and of
\* writeRaw(const MessageEnvelope&), in the order of the statement
ReadOrder == <<"recv", "more", "dump", "parse", "header">>
WriteOrder == <<"serialize", "dump", "send">>

\* the steps of a call that are steps of readRaw / writeRaw
IsFramingStep(step) == step \notin {"msg.parse", "msg.serialize"}
FramingSteps(r) == SelectSeq(r.steps, IsFramingStep)

IsPrefix(a, b) == Len(a) <= Len(b) /\ a = SubSeq(b, 1, Len(a))

\* C17: a read runs recv, the test of more(), dumpPayload with "recv",
\* the parse and the header check in this order and stops at the first
\* that fails; a write runs the serialization, dumpPayload with "send"
\* and send in this order.  A traced read of a single frame wrote the
\* frame's bytes to the trace whether or not the parse and the header
\* check then succeeded, and a traced write wrote the serialized envelope
\* whether or not send then succeeded.
C17_StepOrder ==
    LET r == last.r
        st == FramingSteps(r)
        sk == sock[last.sock]
        traced == debugEnabled(node_.name, sk.name_, environ)
        single == last.io = "frame" /\ ~last.rx.more
        Saw(op, bytes) ==
            IF traced
            THEN /\ Len(r.dump) = 1
                 /\ r.dump[1].op = op
                 /\ r.dump[1].payload = bytes
            ELSE r.dump = <<>>
    IN  /\ last.op \in ReadOps =>
             /\ IsPrefix(st, ReadOrder)
             /\ last.io # "frame" => st = <<"recv">> /\ r.outcome # "ok"
             /\ (last.io = "frame" /\ last.rx.more) =>
                   /\ st = <<"recv", "more">>
                   /\ r.outcome = "MessageTooManyPartsError"
             /\ ~single => r.dump = <<>>
             /\ single =>
                   /\ IsPrefix(<<"recv", "more", "dump", "parse">>, st)
                   /\ Saw("recv", last.rx.data)
                   /\ (Len(st) = 5) = (last.rx.data.wellformed /\ sk.has_header_)
                   /\ ~last.rx.data.wellformed => r.outcome = "parse error"
             /\ r.outcome \in {"std::out_of_range", "HeaderMismatch"} =>
                   Len(st) = 5
        /\ last.op \in WriteOps =>
             /\ st = WriteOrder
             /\ Saw("send", EnvEncode(r.env))
             /\ (r.wire # <<>>) = (last.io = "ok")
             /\ r.wire # <<>> => r.wire = <<EnvEncode(r.env)>>

\* C17 witness: a traced writeMsg whose send did not complete wrote the
\* serialized envelope to the trace before it failed
C17_Witness ==
    /\ last.op = "writeMsg(msg)"
    /\ last.r.outcome = "SocketWriteError"
    /\ Len(last.r.dump) = 1
    /\ last.r.dump[1].op = "send"
    /\ last.r.dump[1].payload = EnvEncode(last.r.env)
    /\ last.r.wire = <<>>

-----------------------------------------------------------------------------
(* Properties of failed reads (SpecRead) *)

\* the last call was a read that took the frame
Took(frame) == last.op \in ReadOps /\ last.io = "frame" /\ last.rx = frame

\* what holds, when it returns, of a read of a frame of the datagram
\* Fragmented: the reads of its first and second frame failed with
\* MessageTooManyPartsError and left the frames after it queued, and the
\* read of its third frame went on to parse the frame
FragmentsReadOneByOne ==
    /\ Took(Fragmented[1]) =>
          /\ last.r.outcome = "MessageTooManyPartsError"
          /\ inbox[last.sock] = <<Fragmented[2], Fragmented[3]>>
    /\ Took(Fragmented[2]) =>
          /\ last.r.outcome = "MessageTooManyPartsError"
          /\ inbox[last.sock] = <<Fragmented[3]>>
    /\ Took(Fragmented[3]) =>
          /\ last.r.outcome # "MessageTooManyPartsError"
          /\ IsStep(last.r, "parse")
          /\ inbox[last.sock] = <<>>

\* C19: a read that fails with MessageTooManyPartsError took exactly the
\* first frame of the queue, a frame with more frames to follow, and left
\* the frames after it queued; so the k-1 first frames of a datagram of k
\* frames fail one read each, and the read after them takes the last frame
\* and parses it.
C19_OneFramePerFailedRead ==
    [][/\ last' # last => FragmentsReadOneByOne'
       /\ \A s \in Socks :
             (/\ last'.op \in ReadOps /\ last'.sock = s /\ last' # last
              /\ last'.r.outcome = "MessageTooManyPartsError")
             => /\ inbox[s] # <<>>
                /\ Head(inbox[s]).more
                /\ last'.rx = Head(inbox[s])
                /\ inbox'[s] = Tail(inbox[s])
                /\ inbox'[s] # <<>>]_vars

\* C19 witness: the third read of the datagram of three frames took its
\* last frame alone and returned the envelope in it
C19_Witness ==
    /\ Took(Fragmented[3])
    /\ last.op = "readRaw(env)"
    /\ last.r.outcome = "ok"
    /\ last.r.env = MessageEnvelope(<<PartA>>, NoHeaders)
    /\ inbox[last.sock] = <<>>

\* the ways readRaw(MessageEnvelope&) fails: recv throws or returns false,
\* the frame has more frames to follow, the bytes are no envelope, the
\* envelope has no "Header" or another socket's
FramingErrors ==
    {"zmq::error_t", "SocketReadError", "MessageTooManyPartsError",
     "parse error", "std::out_of_range", "HeaderMismatch"}

\* C20: when readRaw(parts), readRaw(msg, type) or readMsg(msg) leaves
\* with an error of recv, of the frame count, of the envelope's parse or of
\* the header check, the caller's parts list, payload and type strings and
\* message object hold what they held when the call was made.
C20_FailedReadLeavesArguments ==
    (/\ last.op \in {"readRaw(parts)", "readRaw(msg,type)", "readMsg(msg)"}
     /\ last.r.outcome \in FramingErrors)
    => /\ last.op = "readRaw(parts)" => last.r.parts = last.args.parts
       /\ last.op = "readRaw(msg,type)" =>
             /\ last.r.payload = last.args.payload
             /\ last.r.type = last.args.type
       /\ last.op = "readMsg(msg)" => last.r.message = last.args.message

\* C20 witness: readRaw(parts) on a header-checking subscriber parsed an
\* envelope of one part without a "Header", failed, and left the caller's
\* list holding the part it held before
C20_Witness ==
    /\ last.op = "readRaw(parts)"
    /\ sock[last.sock].has_header_
    /\ ReadAnEnvelope
    /\ Received.parts = <<PartA>>
    /\ last.r.outcome = "std::out_of_range"
    /\ last.args.parts = <<PartB>>
    /\ last.r.parts = <<PartB>>

====
